---- MODULE Spec2Model ----
(***************************************************************************)
(* Model of test-cuda-installation.py: the two checks                      *)
(* test_cuda_availability() and test_cudnn(), and the __main__ block that  *)
(* aggregates them into the process exit code.                             *)
(*                                                                         *)
(* The program is sequential.  pc is the line about to execute ("L14" is   *)
(* line 14 of the script).  The ML framework is an external collaborator:  *)
(* every call into it either raises or returns a value of its type, chosen *)
(* with \E.  torch.randn and torch.mm are modelled by what they compute on *)
(* shapes and devices.  print is modelled as appending to the log and      *)
(* never fails; the text formatting of a line is not modelled, only which  *)
(* line is printed and the values it carries.                              *)
(***************************************************************************)
EXTENDS Integers, Sequences, FiniteSets, TLC

\* Largest device count the runtime reports in the model.
MaxDevices == 2

\* torch.randn(1000, 1000, ...)
TENSOR_DIM == 1000

\* 1024**3, one GB of device memory
GB == 1073741824

\* Outcomes of `import torch`.
ImportOutcome == {"ok", "ImportError", "Exception"}
\* Outcomes of any other call into the runtime.
CallOutcome == {"ok", "Exception"}
\* Values get_device_name may report.
DeviceNames == {"", "GPU"}
\* Values props.total_memory may report.
DeviceMemory == {0, GB}

VARIABLES pc, log, raised, torch_loaded, cuda_available, device_count, i,
          enumerated, x, y, z, cudnn_available, cuda_ok, cudnn_ok, exit_code

vars == <<pc, log, raised, torch_loaded, cuda_available, device_count, i,
          enumerated, x, y, z, cudnn_available, cuda_ok, cudnn_ok, exit_code>>

\* A name that is not bound to a tensor yet.
NoTensor == [shape |-> <<0, 0>>, device |-> "unbound"]

\* torch.randn(n, m, device=d): an n x m tensor resident on d.
randn(n, m, d) == [shape |-> <<n, m>>, device |-> d]

\* torch.mm(a, b) is defined for a (n x k), b (k x m) on one device.
mm_defined(a, b) == a.shape[2] = b.shape[1] /\ a.device = b.device

\* torch.mm(a, b): the (n x m) product, resident on the inputs' device.
mm(a, b) == [shape |-> <<a.shape[1], b.shape[2]>>, device |-> a.device]

\* Variant: only `except ImportError`, any other exception propagates.
CudaHandler_ImportOnly(e) == IF e = "ImportError" THEN "L60" ELSE "uncaught"

\* The except clauses of test_cuda_availability, by exception class.
CudaHandler(e) == IF e = "ImportError" THEN "L60" ELSE "L63"

\* The except clause of test_cudnn.
CudnnHandler(e) == "L78"

\* Variant: the branch on cuda_available is missing, the probe always runs.
AfterAvailable_Always(avail) == "L22"

\* if cuda_available: ... else: ...
AfterAvailable(avail) == IF avail THEN "L22" ELSE "L56"

\* Variant: range(device_count - 1), the last device is not listed.
LoopNext_OffByOne(k, n) == IF k < n - 1 THEN "L31" ELSE "L40"

\* for i in range(device_count): body, or fall out of the loop.
LoopNext(k, n) == IF k < n THEN "L31" ELSE "L40"

\* Variant: the library flag is read whether or not a device is present.
CudnnAfterAvailable_Always(avail) == "L72"

\* if torch.cuda.is_available(): ... ; return False
CudnnAfterAvailable(avail) == IF avail THEN "L72" ELSE "L77"

\* Variant: `or` in place of `and`.
ExitCode_Or(a, b) == IF a \/ b THEN 0 ELSE 1

\* if cuda_ok and cudnn_ok: sys.exit(0) else: sys.exit(1)
ExitCode(a, b) == IF a /\ b THEN 0 ELSE 1

Init ==
    /\ pc = "L83"
    /\ log = <<>>
    /\ raised = <<>>
    /\ torch_loaded = FALSE
    /\ cuda_available = FALSE
    /\ device_count = 0
    /\ i = 0
    /\ enumerated = <<>>
    /\ x = NoTensor
    /\ y = NoTensor
    /\ z = NoTensor
    /\ cudnn_available = FALSE
    /\ cuda_ok = FALSE
    /\ cudnn_ok = FALSE
    /\ exit_code = -1

\* ---------------------------------------------------------------- __main__

\* print("Starting CUDA installation verification...\n")
main_L83 ==
    /\ pc = "L83"
    /\ log' = Append(log, <<"print", "Starting">>)
    /\ pc' = "L85"
    /\ UNCHANGED <<raised, torch_loaded, cuda_available, device_count, i,
                   enumerated, x, y, z, cudnn_available, cuda_ok, cudnn_ok,
                   exit_code>>

\* cuda_ok = test_cuda_availability(): the call
main_L85 ==
    /\ pc = "L85"
    /\ log' = Append(log, <<"enter", "test_cuda_availability">>)
    /\ pc' = "L9"
    /\ UNCHANGED <<raised, torch_loaded, cuda_available, device_count, i,
                   enumerated, x, y, z, cudnn_available, cuda_ok, cudnn_ok,
                   exit_code>>

\* ------------------------------------------------ test_cuda_availability

\* the banner, printed before the try block
cuda_L9 ==
    /\ pc = "L9"
    /\ log' = Append(log, <<"print", "Banner">>)
    /\ pc' = "L14"
    /\ UNCHANGED <<raised, torch_loaded, cuda_available, device_count, i,
                   enumerated, x, y, z, cudnn_available, cuda_ok, cudnn_ok,
                   exit_code>>

\* import torch
cuda_L14 ==
    /\ pc = "L14"
    /\ \E o \in ImportOutcome :
         IF o = "ok"
         THEN /\ torch_loaded' = TRUE
              /\ raised' = raised
              /\ pc' = "L15"
         ELSE /\ torch_loaded' = torch_loaded
              /\ raised' = Append(raised,
                             <<"test_cuda_availability", "import torch", o>>)
              /\ pc' = CudaHandler(o)
    /\ log' = Append(log, <<"call", "import torch">>)
    /\ UNCHANGED <<cuda_available, device_count, i, enumerated, x, y, z,
                   cudnn_available, cuda_ok, cudnn_ok, exit_code>>

\* print(PyTorch version)
cuda_L15 ==
    /\ pc = "L15"
    /\ log' = Append(log, <<"print", "PyTorchVersion">>)
    /\ pc' = "L18"
    /\ UNCHANGED <<raised, torch_loaded, cuda_available, device_count, i,
                   enumerated, x, y, z, cudnn_available, cuda_ok, cudnn_ok,
                   exit_code>>

\* cuda_available = torch.cuda.is_available(); print it
cuda_L18 ==
    /\ pc = "L18"
    /\ \E o \in CallOutcome, avail \in BOOLEAN :
         IF o = "ok"
         THEN /\ cuda_available' = avail
              /\ log' = log \o << <<"call", "is_available">>,
                                  <<"result", "is_available", avail>>,
                                  <<"print", "CudaAvailable">> >>
              /\ raised' = raised
              /\ pc' = "L21"
         ELSE /\ cuda_available' = cuda_available
              /\ log' = Append(log, <<"call", "is_available">>)
              /\ raised' = Append(raised,
                             <<"test_cuda_availability", "is_available", o>>)
              /\ pc' = CudaHandler(o)
    /\ UNCHANGED <<torch_loaded, device_count, i, enumerated, x, y, z,
                   cudnn_available, cuda_ok, cudnn_ok, exit_code>>

\* if cuda_available:
cuda_L21 ==
    /\ pc = "L21"
    /\ pc' = AfterAvailable(cuda_available)
    /\ UNCHANGED <<log, raised, torch_loaded, cuda_available, device_count, i,
                   enumerated, x, y, z, cudnn_available, cuda_ok, cudnn_ok,
                   exit_code>>

\* device_count = torch.cuda.device_count(); print it
cuda_L22 ==
    /\ pc = "L22"
    /\ \E o \in CallOutcome, n \in 0..MaxDevices :
         IF o = "ok"
         THEN /\ device_count' = n
              /\ log' = log \o << <<"call", "device_count">>,
                                  <<"print", "DeviceCount">> >>
              /\ raised' = raised
              /\ pc' = "L26"
         ELSE /\ device_count' = device_count
              /\ log' = Append(log, <<"call", "device_count">>)
              /\ raised' = Append(raised,
                             <<"test_cuda_availability", "device_count", o>>)
              /\ pc' = CudaHandler(o)
    /\ UNCHANGED <<torch_loaded, cuda_available, i, enumerated, x, y, z,
                   cudnn_available, cuda_ok, cudnn_ok, exit_code>>

\* Variant: range(1, device_count), device 0 is not listed.
cuda_L26_FromOne ==
    /\ pc = "L26"
    /\ log' = Append(log, <<"print", "CudaVersion">>)
    /\ i' = 1
    /\ pc' = "L30"
    /\ UNCHANGED <<raised, torch_loaded, cuda_available, device_count,
                   enumerated, x, y, z, cudnn_available, cuda_ok, cudnn_ok,
                   exit_code>>

\* cuda_version = torch.version.cuda; print it; the loop starts at i = 0
cuda_L26 ==
    /\ pc = "L26"
    /\ log' = Append(log, <<"print", "CudaVersion">>)
    /\ i' = 0
    /\ pc' = "L30"
    /\ UNCHANGED <<raised, torch_loaded, cuda_available, device_count,
                   enumerated, x, y, z, cudnn_available, cuda_ok, cudnn_ok,
                   exit_code>>

\* for i in range(device_count):
cuda_L30 ==
    /\ pc = "L30"
    /\ pc' = LoopNext(i, device_count)
    /\ UNCHANGED <<log, raised, torch_loaded, cuda_available, device_count, i,
                   enumerated, x, y, z, cudnn_available, cuda_ok, cudnn_ok,
                   exit_code>>

\* device_name = torch.cuda.get_device_name(i); print it
cuda_L31 ==
    /\ pc = "L31"
    /\ \E o \in CallOutcome, name \in DeviceNames :
         IF o = "ok"
         THEN /\ enumerated' = Append(enumerated,
                                 [name |-> name, total_memory |-> -1])
              /\ log' = log \o << <<"call", "get_device_name", i>>,
                                  <<"print", "Device", i>> >>
              /\ raised' = raised
              /\ pc' = "L35"
         ELSE /\ enumerated' = enumerated
              /\ log' = Append(log, <<"call", "get_device_name", i>>)
              /\ raised' = Append(raised,
                             <<"test_cuda_availability", "get_device_name", o>>)
              /\ pc' = CudaHandler(o)
    /\ UNCHANGED <<torch_loaded, cuda_available, device_count, i, x, y, z,
                   cudnn_available, cuda_ok, cudnn_ok, exit_code>>

\* props = torch.cuda.get_device_properties(i); print memory and capability
cuda_L35 ==
    /\ pc = "L35"
    /\ \E o \in CallOutcome, mem \in DeviceMemory :
         IF o = "ok"
         THEN /\ enumerated' = [enumerated EXCEPT
                                  ![Len(enumerated)].total_memory = mem]
              /\ log' = log \o << <<"call", "get_device_properties", i>>,
                                  <<"print", "Memory", i>>,
                                  <<"print", "ComputeCapability", i>> >>
              /\ raised' = raised
              /\ i' = i + 1
              /\ pc' = "L30"
         ELSE /\ enumerated' = enumerated
              /\ log' = Append(log, <<"call", "get_device_properties", i>>)
              /\ raised' = Append(raised,
                        <<"test_cuda_availability",
                          "get_device_properties", o>>)
              /\ i' = i
              /\ pc' = CudaHandler(o)
    /\ UNCHANGED <<torch_loaded, cuda_available, device_count, x, y, z,
                   cudnn_available, cuda_ok, cudnn_ok, exit_code>>

\* the "Testing CUDA Operations" header
cuda_L40 ==
    /\ pc = "L40"
    /\ log' = Append(log, <<"print", "TestingHeader">>)
    /\ pc' = "L45"
    /\ UNCHANGED <<raised, torch_loaded, cuda_available, device_count, i,
                   enumerated, x, y, z, cudnn_available, cuda_ok, cudnn_ok,
                   exit_code>>

\* device = torch.device('cuda:0'); x = torch.randn(1000, 1000, device=device)
cuda_L45 ==
    /\ pc = "L45"
    /\ \E o \in CallOutcome :
         IF o = "ok"
         THEN /\ x' = randn(TENSOR_DIM, TENSOR_DIM, "cuda:0")
              /\ raised' = raised
              /\ pc' = "L47"
         ELSE /\ x' = x
              /\ raised' = Append(raised,
                             <<"test_cuda_availability", "randn", o>>)
              /\ pc' = CudaHandler(o)
    /\ log' = Append(log, <<"call", "randn">>)
    /\ UNCHANGED <<torch_loaded, cuda_available, device_count, i, enumerated,
                   y, z, cudnn_available, cuda_ok, cudnn_ok, exit_code>>

\* Variant: y = torch.randn(1000, 1, device=device), a column vector.
cuda_L47_Vector ==
    /\ pc = "L47"
    /\ \E o \in CallOutcome :
         IF o = "ok"
         THEN /\ y' = randn(TENSOR_DIM, 1, "cuda:0")
              /\ raised' = raised
              /\ pc' = "L50"
         ELSE /\ y' = y
              /\ raised' = Append(raised,
                             <<"test_cuda_availability", "randn", o>>)
              /\ pc' = CudaHandler(o)
    /\ log' = Append(log, <<"call", "randn">>)
    /\ UNCHANGED <<torch_loaded, cuda_available, device_count, i, enumerated,
                   x, z, cudnn_available, cuda_ok, cudnn_ok, exit_code>>

\* y = torch.randn(1000, 1000, device=device)
cuda_L47 ==
    /\ pc = "L47"
    /\ \E o \in CallOutcome :
         IF o = "ok"
         THEN /\ y' = randn(TENSOR_DIM, TENSOR_DIM, "cuda:0")
              /\ raised' = raised
              /\ pc' = "L50"
         ELSE /\ y' = y
              /\ raised' = Append(raised,
                             <<"test_cuda_availability", "randn", o>>)
              /\ pc' = CudaHandler(o)
    /\ log' = Append(log, <<"call", "randn">>)
    /\ UNCHANGED <<torch_loaded, cuda_available, device_count, i, enumerated,
                   x, z, cudnn_available, cuda_ok, cudnn_ok, exit_code>>

\* z = torch.mm(x, y); print success, z.shape and z.device
cuda_L50 ==
    /\ pc = "L50"
    /\ \E o \in CallOutcome :
         IF o = "ok" /\ mm_defined(x, y)
         THEN /\ z' = mm(x, y)
              /\ log' = log \o << <<"call", "mm">>,
                                  <<"print", "MatmulPassed">>,
                                  <<"print", "ResultShape">>,
                                  <<"print", "ResultDevice">> >>
              /\ raised' = raised
              /\ pc' = "L55"
         ELSE /\ z' = z
              /\ log' = Append(log, <<"call", "mm">>)
              /\ raised' = Append(raised,
                             <<"test_cuda_availability", "mm", "Exception">>)
              /\ pc' = CudaHandler("Exception")
    /\ UNCHANGED <<torch_loaded, cuda_available, device_count, i, enumerated,
                   x, y, cudnn_available, cuda_ok, cudnn_ok, exit_code>>

\* return True
cuda_L55 ==
    /\ pc = "L55"
    /\ cuda_ok' = TRUE
    /\ log' = Append(log, <<"return", "test_cuda_availability">>)
    /\ pc' = "L86"
    /\ UNCHANGED <<raised, torch_loaded, cuda_available, device_count, i,
                   enumerated, x, y, z, cudnn_available, cudnn_ok, exit_code>>

\* else: print("CUDA is not available"); return False
cuda_L56 ==
    /\ pc = "L56"
    /\ cuda_ok' = FALSE
    /\ log' = log \o << <<"print", "NotAvailable">>,
                        <<"return", "test_cuda_availability">> >>
    /\ pc' = "L86"
    /\ UNCHANGED <<raised, torch_loaded, cuda_available, device_count, i,
                   enumerated, x, y, z, cudnn_available, cudnn_ok, exit_code>>

\* Variant: the ImportError handler returns True.
cuda_L60_ReturnsTrue ==
    /\ pc = "L60"
    /\ cuda_ok' = TRUE
    /\ log' = log \o << <<"print", "ImportFailed">>,
                        <<"return", "test_cuda_availability">> >>
    /\ pc' = "L86"
    /\ UNCHANGED <<raised, torch_loaded, cuda_available, device_count, i,
                   enumerated, x, y, z, cudnn_available, cudnn_ok, exit_code>>

\* except ImportError: print, return False
cuda_L60 ==
    /\ pc = "L60"
    /\ cuda_ok' = FALSE
    /\ log' = log \o << <<"print", "ImportFailed">>,
                        <<"return", "test_cuda_availability">> >>
    /\ pc' = "L86"
    /\ UNCHANGED <<raised, torch_loaded, cuda_available, device_count, i,
                   enumerated, x, y, z, cudnn_available, cudnn_ok, exit_code>>

\* except Exception: print, return False
cuda_L63 ==
    /\ pc = "L63"
    /\ cuda_ok' = FALSE
    /\ log' = log \o << <<"print", "CudaTestFailed">>,
                        <<"return", "test_cuda_availability">> >>
    /\ pc' = "L86"
    /\ UNCHANGED <<raised, torch_loaded, cuda_available, device_count, i,
                   enumerated, x, y, z, cudnn_available, cudnn_ok, exit_code>>

\* Variant: test_cudnn() is skipped when the first check failed.
main_L86_ShortCircuit ==
    /\ pc = "L86"
    /\ log' = Append(log, <<"print", "Blank">>)
    /\ pc' = IF cuda_ok THEN "L87" ELSE "L89"
    /\ UNCHANGED <<raised, torch_loaded, cuda_available, device_count, i,
                   enumerated, x, y, z, cudnn_available, cuda_ok, cudnn_ok,
                   exit_code>>

\* print() between the two checks
main_L86 ==
    /\ pc = "L86"
    /\ log' = Append(log, <<"print", "Blank">>)
    /\ pc' = "L87"
    /\ UNCHANGED <<raised, torch_loaded, cuda_available, device_count, i,
                   enumerated, x, y, z, cudnn_available, cuda_ok, cudnn_ok,
                   exit_code>>

\* cudnn_ok = test_cudnn(): the call
main_L87 ==
    /\ pc = "L87"
    /\ log' = Append(log, <<"enter", "test_cudnn">>)
    /\ pc' = "L70"
    /\ UNCHANGED <<raised, torch_loaded, cuda_available, device_count, i,
                   enumerated, x, y, z, cudnn_available, cuda_ok, cudnn_ok,
                   exit_code>>

\* ------------------------------------------------------------ test_cudnn

\* import torch: a module already loaded is taken from sys.modules and the
\* import cannot fail; after a failed import the import is attempted again.
cudnn_L70 ==
    /\ pc = "L70"
    /\ \E o \in ImportOutcome :
         IF o = "ok" \/ torch_loaded
         THEN /\ torch_loaded' = TRUE
              /\ raised' = raised
              /\ pc' = "L71"
         ELSE /\ torch_loaded' = torch_loaded
              /\ raised' = Append(raised,
                             <<"test_cudnn", "import torch", o>>)
              /\ pc' = CudnnHandler(o)
    /\ log' = Append(log, <<"call", "import torch">>)
    /\ UNCHANGED <<cuda_available, device_count, i, enumerated, x, y, z,
                   cudnn_available, cuda_ok, cudnn_ok, exit_code>>

\* Variant: test_cudnn reuses the first check's cuda_available.
cudnn_L71_ReusesResult ==
    /\ pc = "L71"
    /\ pc' = CudnnAfterAvailable(cuda_available)
    /\ UNCHANGED <<log, raised, torch_loaded, cuda_available, device_count, i,
                   enumerated, x, y, z, cudnn_available, cuda_ok, cudnn_ok,
                   exit_code>>

\* if torch.cuda.is_available():
cudnn_L71 ==
    /\ pc = "L71"
    /\ \E o \in CallOutcome, avail \in BOOLEAN :
         IF o = "ok"
         THEN /\ log' = log \o << <<"call", "is_available">>,
                                  <<"result", "is_available", avail>> >>
              /\ raised' = raised
              /\ pc' = CudnnAfterAvailable(avail)
         ELSE /\ log' = Append(log, <<"call", "is_available">>)
              /\ raised' = Append(raised,
                             <<"test_cudnn", "is_available", o>>)
              /\ pc' = CudnnHandler(o)
    /\ UNCHANGED <<torch_loaded, cuda_available, device_count, i, enumerated,
                   x, y, z, cudnn_available, cuda_ok, cudnn_ok, exit_code>>

\* cudnn_available = torch.backends.cudnn.enabled; print it
cudnn_L72 ==
    /\ pc = "L72"
    /\ \E o \in CallOutcome, enabled \in BOOLEAN :
         IF o = "ok"
         THEN /\ cudnn_available' = enabled
              /\ log' = log \o << <<"call", "cudnn.enabled">>,
                                  <<"print", "CudnnEnabled">> >>
              /\ raised' = raised
              /\ pc' = "L74"
         ELSE /\ cudnn_available' = cudnn_available
              /\ log' = Append(log, <<"call", "cudnn.enabled">>)
              /\ raised' = Append(raised,
                             <<"test_cudnn", "cudnn.enabled", o>>)
              /\ pc' = CudnnHandler(o)
    /\ UNCHANGED <<torch_loaded, cuda_available, device_count, i, enumerated,
                   x, y, z, cuda_ok, cudnn_ok, exit_code>>

\* if cudnn_available: print(torch.backends.cudnn.version())
cudnn_L74 ==
    /\ pc = "L74"
    /\ IF cudnn_available
       THEN \E o \in CallOutcome :
              IF o = "ok"
              THEN /\ log' = log \o << <<"call", "cudnn.version">>,
                                       <<"print", "CudnnVersion">> >>
                   /\ raised' = raised
                   /\ pc' = "L76"
              ELSE /\ log' = Append(log, <<"call", "cudnn.version">>)
                   /\ raised' = Append(raised,
                                  <<"test_cudnn", "cudnn.version", o>>)
                   /\ pc' = CudnnHandler(o)
       ELSE /\ log' = log
            /\ raised' = raised
            /\ pc' = "L76"
    /\ UNCHANGED <<torch_loaded, cuda_available, device_count, i, enumerated,
                   x, y, z, cudnn_available, cuda_ok, cudnn_ok, exit_code>>

\* return cudnn_available
cudnn_L76 ==
    /\ pc = "L76"
    /\ cudnn_ok' = cudnn_available
    /\ log' = Append(log, <<"return", "test_cudnn">>)
    /\ pc' = "L89"
    /\ UNCHANGED <<raised, torch_loaded, cuda_available, device_count, i,
                   enumerated, x, y, z, cudnn_available, cuda_ok, exit_code>>

\* return False
cudnn_L77 ==
    /\ pc = "L77"
    /\ cudnn_ok' = FALSE
    /\ log' = Append(log, <<"return", "test_cudnn">>)
    /\ pc' = "L89"
    /\ UNCHANGED <<raised, torch_loaded, cuda_available, device_count, i,
                   enumerated, x, y, z, cudnn_available, cuda_ok, exit_code>>

\* except Exception: print, return False
cudnn_L78 ==
    /\ pc = "L78"
    /\ cudnn_ok' = FALSE
    /\ log' = log \o << <<"print", "CudnnTestFailed">>,
                        <<"return", "test_cudnn">> >>
    /\ pc' = "L89"
    /\ UNCHANGED <<raised, torch_loaded, cuda_available, device_count, i,
                   enumerated, x, y, z, cudnn_available, cuda_ok, exit_code>>

\* ------------------------------------------------------- __main__, summary

\* the SUMMARY header
main_L89 ==
    /\ pc = "L89"
    /\ log' = Append(log, <<"print", "SummaryHeader">>)
    /\ pc' = "L93"
    /\ UNCHANGED <<raised, torch_loaded, cuda_available, device_count, i,
                   enumerated, x, y, z, cudnn_available, cuda_ok, cudnn_ok,
                   exit_code>>

\* if cuda_ok: PASSED else: FAILED
main_L93 ==
    /\ pc = "L93"
    /\ log' = Append(log, <<"print", IF cuda_ok THEN "CudaPassed"
                                                ELSE "CudaFailed">>)
    /\ pc' = "L98"
    /\ UNCHANGED <<raised, torch_loaded, cuda_available, device_count, i,
                   enumerated, x, y, z, cudnn_available, cuda_ok, cudnn_ok,
                   exit_code>>

\* if cudnn_ok: PASSED else: FAILED
main_L98 ==
    /\ pc = "L98"
    /\ log' = Append(log, <<"print", IF cudnn_ok THEN "CudnnPassed"
                                                 ELSE "CudnnFailed">>)
    /\ pc' = "L103"
    /\ UNCHANGED <<raised, torch_loaded, cuda_available, device_count, i,
                   enumerated, x, y, z, cudnn_available, cuda_ok, cudnn_ok,
                   exit_code>>

\* if cuda_ok and cudnn_ok: sys.exit(0) else: sys.exit(1)
main_L103 ==
    /\ pc = "L103"
    /\ exit_code' = ExitCode(cuda_ok, cudnn_ok)
    /\ log' = log \o << <<"print", IF ExitCode(cuda_ok, cudnn_ok) = 0
                                   THEN "Ready" ELSE "Issues">>,
                        <<"exit">> >>
    /\ pc' = "exited"
    /\ UNCHANGED <<raised, torch_loaded, cuda_available, device_count, i,
                   enumerated, x, y, z, cudnn_available, cuda_ok, cudnn_ok>>

Next ==
    \/ main_L83 \/ main_L85
    \/ cuda_L9 \/ cuda_L14 \/ cuda_L15 \/ cuda_L18 \/ cuda_L21 \/ cuda_L22
    \/ cuda_L26 \/ cuda_L30 \/ cuda_L31 \/ cuda_L35 \/ cuda_L40 \/ cuda_L45
    \/ cuda_L47 \/ cuda_L50 \/ cuda_L55 \/ cuda_L56 \/ cuda_L60 \/ cuda_L63
    \/ main_L86 \/ main_L87
    \/ cudnn_L70 \/ cudnn_L71 \/ cudnn_L72 \/ cudnn_L74 \/ cudnn_L76
    \/ cudnn_L77 \/ cudnn_L78
    \/ main_L89 \/ main_L93 \/ main_L98 \/ main_L103

Spec == Init /\ [][Next]_vars

\* The interpreter runs the script to completion: it never stops at a line
\* that can execute.
FairSpec == Init /\ [][Next]_vars /\ WF_vars(Next)

\* ------------------------------------------------------ reading the log

Enter1 == <<"enter", "test_cuda_availability">>
Return1 == <<"return", "test_cuda_availability">>
Enter2 == <<"enter", "test_cudnn">>
Return2 == <<"return", "test_cudnn">>

\* Number of occurrences of entry e in the log.
Count(e) == Cardinality({k \in DOMAIN log : log[k] = e})

\* Position of the first occurrence of e in the log, 0 when absent.
Pos(e) ==
    IF \E k \in DOMAIN log : log[k] = e
    THEN CHOOSE k \in DOMAIN log :
           log[k] = e /\ \A j \in 1..(k - 1) : log[j] # e
    ELSE 0

\* Position k of the log lies inside the run of the first / second check.
InCheck1(k) ==
    /\ Pos(Enter1) > 0 /\ k > Pos(Enter1)
    /\ Pos(Return1) = 0 \/ k < Pos(Return1)
InCheck2(k) ==
    /\ Pos(Enter2) > 0 /\ k > Pos(Enter2)
    /\ Pos(Return2) = 0 \/ k < Pos(Return2)

Returned1 == Pos(Return1) > 0
Returned2 == Pos(Return2) > 0

\* The check called the runtime function `name`.
CalledIn1(name) ==
    \E k \in DOMAIN log :
      InCheck1(k) /\ log[k][1] = "call" /\ log[k][2] = name
CalledIn2(name) ==
    \E k \in DOMAIN log :
      InCheck2(k) /\ log[k][1] = "call" /\ log[k][2] = name

\* The check's is_available() query returned b.
Available1(b) ==
    \E k \in DOMAIN log :
      InCheck1(k) /\ log[k] = <<"result", "is_available", b>>
Available2(b) ==
    \E k \in DOMAIN log :
      InCheck2(k) /\ log[k] = <<"result", "is_available", b>>

\* Function fn raised at its step `step` / at any step.
RaisedAt(fn, step) ==
    \E k \in DOMAIN raised : raised[k][1] = fn /\ raised[k][2] = step
RaisedIn(fn) == \E k \in DOMAIN raised : raised[k][1] = fn

\* The runtime functions only the device listing and the probe call.
ProbeCalls == {"device_count", "get_device_name", "get_device_properties",
               "randn", "mm"}

\* ------------------------------------------------------------------ claims

\* C1: the process exits with code 0 if and only if test_cuda_availability()
\* returned true and test_cudnn() returned true; otherwise it exits with 1.
C1_ExitCodeIffBoth ==
    pc = "exited" =>
      /\ Returned1 /\ Returned2
      /\ exit_code = 0 <=> (cuda_ok /\ cudnn_ok)
      /\ exit_code = 1 <=> ~(cuda_ok /\ cudnn_ok)

C1_Witness == pc = "exited" /\ exit_code = 0 /\ cuda_ok /\ cudnn_ok

\* C2: if `import torch` fails in test_cuda_availability(), the check makes
\* no query to the accelerator and runs no probe, it returns false, and the
\* exit code is 1.
C2_ImportFailure ==
    RaisedAt("test_cuda_availability", "import torch") =>
      /\ ~CalledIn1("is_available")
      /\ \A f \in ProbeCalls : ~CalledIn1(f)
      /\ Returned1 => ~cuda_ok
      /\ pc = "exited" => exit_code = 1

C2_Witness ==
    /\ RaisedAt("test_cuda_availability", "import torch")
    /\ pc = "exited" /\ exit_code = 1

\* C3: no step's failure escapes a check: a check in which a step raised
\* returns false, no exception is ever uncaught, and the process always
\* reaches the final exit with code 0 or 1.
C3_NoUncaughtError ==
    /\ [](/\ pc # "uncaught"
          /\ (Returned1 /\ RaisedIn("test_cuda_availability")) => ~cuda_ok
          /\ (Returned2 /\ RaisedIn("test_cudnn")) => ~cudnn_ok
          /\ pc = "exited" => exit_code \in {0, 1})
    /\ <>(pc = "exited")

C3_Witness ==
    /\ pc = "exited" /\ exit_code = 1
    /\ RaisedAt("test_cuda_availability", "mm")
    /\ RaisedAt("test_cudnn", "cudnn.version")

\* C4: if test_cudnn()'s query reports no accelerator, it returns false and
\* reads neither the library's enabled flag nor its version.
C4_NoAcceleratorSkipsLibrary ==
    Available2(FALSE) =>
      /\ ~CalledIn2("cudnn.enabled")
      /\ ~CalledIn2("cudnn.version")
      /\ Returned2 => ~cudnn_ok

C4_Witness == Available2(FALSE) /\ Returned2 /\ ~cudnn_ok

\* C5: when the framework loads and the runtime reports no accelerator,
\* test_cuda_availability() prints "not available", enumerates no device,
\* allocates no tensor, multiplies nothing, returns false, and the exit code
\* is 1.
C5_NoAcceleratorSkipsProbe ==
    Available1(FALSE) =>
      /\ \A f \in ProbeCalls : ~CalledIn1(f)
      /\ Returned1 => (Count(<<"print", "NotAvailable">>) = 1 /\ ~cuda_ok)
      /\ pc = "exited" => exit_code = 1

C5_Witness ==
    /\ Available1(FALSE) /\ pc = "exited" /\ exit_code = 1
    /\ Count(<<"print", "NotAvailable">>) = 1

\* C6: when the framework loads, an accelerator is present, every runtime
\* call succeeds and the library is enabled, the run prints one entry per
\* device index 0..device_count-1 in index order, then the probe-success
\* message after the matrix multiply, and exits with code 0.
C6_AllSucceed ==
    ( /\ pc = "exited" /\ raised = <<>>
      /\ Available1(TRUE) /\ Available2(TRUE) /\ cudnn_available ) =>
      /\ \A d \in 0..(device_count - 1) :
           /\ Count(<<"print", "Device", d>>) = 1
           /\ Pos(<<"print", "Device", d>>) < Pos(<<"call", "mm">>)
           /\ d > 0 => Pos(<<"print", "Device", d - 1>>)
                         < Pos(<<"print", "Device", d>>)
      /\ Count(<<"print", "Device", device_count>>) = 0
      /\ Count(<<"call", "mm">>) = 1
      /\ Count(<<"print", "MatmulPassed">>) = 1
      /\ Pos(<<"call", "mm">>) < Pos(<<"print", "MatmulPassed">>)
      /\ exit_code = 0

C6_Witness ==
    /\ pc = "exited" /\ raised = <<>> /\ exit_code = 0
    /\ Available1(TRUE) /\ Available2(TRUE) /\ cudnn_available
    /\ device_count >= 2

\* C7: each check runs exactly once and in a fixed order: the first check
\* returns, then test_cudnn() runs (also when the first check returned
\* false), then the summary, then the exit.
C7_OnceInOrder ==
    /\ Count(Enter1) <= 1 /\ Count(Return1) <= 1
    /\ Count(Enter2) <= 1 /\ Count(Return2) <= 1
    /\ Pos(Return1) > 0 => Pos(Enter1) > 0 /\ Pos(Enter1) < Pos(Return1)
    /\ Pos(Enter2) > 0 => Pos(Return1) > 0 /\ Pos(Return1) < Pos(Enter2)
    /\ Pos(Return2) > 0 => Pos(Enter2) > 0 /\ Pos(Enter2) < Pos(Return2)
    /\ Pos(<<"print", "SummaryHeader">>) > 0 =>
         /\ Pos(Return2) > 0
         /\ Pos(Return2) < Pos(<<"print", "SummaryHeader">>)
    /\ pc = "exited" =>
         /\ Count(Enter1) = 1 /\ Count(Return1) = 1
         /\ Count(Enter2) = 1 /\ Count(Return2) = 1
         /\ Count(<<"print", "SummaryHeader">>) = 1
         /\ Count(<<"exit">>) = 1
         /\ Pos(<<"print", "SummaryHeader">>) < Pos(<<"exit">>)
         /\ Pos(<<"exit">>) = Len(log)

C7_Witness ==
    pc = "exited" /\ ~cuda_ok /\ Count(Enter2) = 1 /\ Count(Return2) = 1

C9_Original ==
    (Returned1 /\ cuda_ok) =>
      /\ device_count >= 1
      /\ \A k \in DOMAIN enumerated :
           enumerated[k].name # "" /\ enumerated[k].total_memory > 0

\* C9 amended: when test_cuda_availability() returns true, the accelerator
\* was reported present, the device-count query completed, and for every
\* index 0..device_count-1 the name query and the properties query were
\* each made once, in index order, and completed; the reported values are
\* printed and not validated.
C9_Amended ==
    (Returned1 /\ cuda_ok) =>
      /\ Available1(TRUE)
      /\ Count(<<"call", "device_count">>) = 1
      /\ Len(enumerated) = device_count
      /\ \A d \in 0..(device_count - 1) :
           /\ Count(<<"call", "get_device_name", d>>) = 1
           /\ Count(<<"call", "get_device_properties", d>>) = 1
           /\ Pos(<<"call", "get_device_name", d>>)
                < Pos(<<"call", "get_device_properties", d>>)
           /\ d > 0 => Pos(<<"call", "get_device_properties", d - 1>>)
                         < Pos(<<"call", "get_device_name", d>>)
           /\ enumerated[d + 1].total_memory \in DeviceMemory
      /\ ~RaisedIn("test_cuda_availability")

C9_Witness ==
    /\ Returned1 /\ cuda_ok /\ device_count >= 1
    /\ enumerated[1].name = "" /\ enumerated[1].total_memory = 0

\* C10: test_cudnn() queries accelerator presence itself.  Exit code 0
\* implies that both queries reported an accelerator, that every device's
\* name and properties query and the probe completed without error, and
\* that the library was enabled and its version query did not fail; a run in
\* which the first check returned false exits with code 1 whatever
\* test_cudnn() returned.
C10_IndependentQueries ==
    /\ (Returned2 /\ ~RaisedAt("test_cudnn", "import torch")) =>
         CalledIn2("is_available")
    /\ (Returned2 /\ cudnn_ok) => Available2(TRUE)
    /\ (pc = "exited" /\ exit_code = 0) =>
         /\ Available1(TRUE) /\ Available2(TRUE)
         /\ Count(<<"call", "is_available">>) = 2
         /\ raised = <<>>
         /\ \A d \in 0..(device_count - 1) :
              /\ Count(<<"call", "get_device_name", d>>) = 1
              /\ Count(<<"call", "get_device_properties", d>>) = 1
         /\ Count(<<"call", "mm">>) = 1
         /\ CalledIn2("cudnn.enabled") /\ cudnn_available
         /\ CalledIn2("cudnn.version")
    /\ (pc = "exited" /\ ~cuda_ok) => exit_code = 1

C10_Witness ==
    /\ pc = "exited" /\ exit_code = 1
    /\ ~cuda_ok /\ cudnn_ok
    /\ RaisedAt("test_cuda_availability", "mm")
====
